---- MODULE Spec2Model ----
(***************************************************************************)
(* Span store (crates/storage), span lifecycle (crate trace) and the       *)
(* instrumented proxy handlers (crates/proxy) of the llmtrace daemon.      *)
(*                                                                         *)
(* The specifications share the state:                                     *)
(*   StoreSpec  the SpanStore's two indexes under insert, delete_span,     *)
(*              delete_trace and clear, one method call per step;          *)
(*   LifeSpec   the span lifecycle under complete and fail, called on the  *)
(*              store or through get_mut as the handlers do, with the      *)
(*              clock advancing between the calls;                         *)
(*   Spec       the daemon: handler tasks, query tasks and an              *)
(*              administration task sharing one Arc<RwLock<SpanStore>>     *)
(*              (the clock stands still here: timestamps are LifeSpec's);  *)
(*   LiveSpec   Spec under the fairness of the scheduler and the lock.     *)
(*   CallSpec   one method call (filter_spans, a lookup, a deletion) on a   *)
(*              store that inserts, completions and failures have filled;  *)
(*   WireSpec   the JSON bodies through the handlers: the inbound request  *)
(*              to the outbound body, the backend's body to the reply.     *)
(***************************************************************************)
EXTENDS Integers, Sequences, FiniteSets, TLC

(* ---------------------------------------------------------------- bounds *)
MaxInserts == 3     \* insert calls when the store is called directly
MaxTraces == 2      \* trace ids those spans are filed under
MaxLive == 1        \* spans of the lifecycle specification
MaxTime == 2        \* last value of the clock
NumHandlers == 2    \* inbound calls (one handler task each)
NumReaders == 2     \* tasks of the query surface

SpanIds == 1..MaxInserts
TraceIds == 1..MaxTraces
Handlers == 1..NumHandlers
Readers == (NumHandlers + 1)..(NumHandlers + NumReaders)
Admin == 0
Tasks == Handlers \cup Readers \cup {Admin}


(* Option<T>: None is the empty sequence, Some(x) the one-element one. *)
None == << >>
Some(x) == << x >>

VARIABLES
    store,      \* SpanStore: [spans: SpanId -> Span, traces: TraceId -> Seq(SpanId)]
    now,        \* the value Utc::now() last returned (non-decreasing)
    next_id,    \* number of span ids Span::new has handed out (StoreSpec)
    inserted,   \* history: the <<trace id, span id>> of every insert call, in call order
    deleted,    \* history: span ids the administration task removed
    writers,    \* tasks holding the RwLock's write guard
    readers,    \* tasks holding a read guard
    pc,         \* each task's position
    call,       \* each handler's locals: request, span, outbound result, reply
    ret         \* the last call made on the store or on a conversion, with what it returned

vars == << store, now, next_id, inserted, deleted, writers, readers, pc, call, ret >>

(* ------------------------------------------------------------ span model *)
Running(t) == [tag |-> "Running", started_at |-> t]
Completed(s, e) == [tag |-> "Completed", started_at |-> s, ended_at |-> e]
Failed(s, e, err) == [tag |-> "Failed", started_at |-> s, ended_at |-> e, error |-> err]

SpanMetadata(model, input_tokens, output_tokens) ==
    [model |-> model, input_tokens |-> input_tokens, output_tokens |-> output_tokens]

\* Span::new(trace_id, parent_span_id, name) with the fresh id and the clock made explicit
Span_new(id, trace_id, parent_span_id, name, t) ==
    [id |-> id, trace_id |-> trace_id, parent_span_id |-> parent_span_id,
     name |-> name, status |-> Running(t),
     metadata |-> SpanMetadata(None, None, None)]

\* Span::complete(&mut self) at time t
span_complete(span, t) ==
    IF span.status.tag = "Running"
    THEN [span EXCEPT !.status = Completed(span.status.started_at, t)]
    ELSE span

\* Span::fail(&mut self, error) at time t
span_fail(span, error, t) ==
    IF span.status.tag = "Running"
    THEN [span EXCEPT !.status = Failed(span.status.started_at, t, error)]
    ELSE span

(* ------------------------------------------------------------ span store *)
SpanStore_new == [spans |-> << >>, traces |-> << >>]

Put(f, k, v) == [x \in DOMAIN f \cup {k} |-> IF x = k THEN v ELSE f[x]]
Remove(f, k) == [x \in DOMAIN f \ {k} |-> f[x]]

insert(st, span) ==
    LET id == span.id
        trace_id == span.trace_id
        entry == IF trace_id \in DOMAIN st.traces THEN st.traces[trace_id] ELSE << >>
    IN  [spans |-> Put(st.spans, id, span),
         traces |-> Put(st.traces, trace_id, Append(entry, id))]

get(st, id) == IF id \in DOMAIN st.spans THEN Some(st.spans[id]) ELSE None

spans_for_trace(st, trace_id) ==
    IF trace_id \in DOMAIN st.traces THEN st.traces[trace_id] ELSE << >>

trace_ids(st) == DOMAIN st.traces

all_spans(st) == {st.spans[i] : i \in DOMAIN st.spans}

\* Each method that mutates and returns is modelled as [store |-> the store
\* afterwards, ret |-> the value returned].

\* (mutant) complete that writes the Completed status itself, whatever the status was
complete_overwrite(st, id, t) ==
    IF id \in DOMAIN st.spans
    THEN [store |-> [st EXCEPT !.spans[id].status =
                                    Completed(st.spans[id].status.started_at, t)],
          ret |-> TRUE]
    ELSE [store |-> st, ret |-> FALSE]

complete(st, id, t) ==
    IF id \in DOMAIN st.spans
    THEN [store |-> [st EXCEPT !.spans[id] = span_complete(@, t)], ret |-> TRUE]
    ELSE [store |-> st, ret |-> FALSE]

\* (mutant) fail that reports whether it changed the status
fail_reports_change(st, id, error, t) ==
    IF id \in DOMAIN st.spans
    THEN [store |-> [st EXCEPT !.spans[id] = span_fail(@, error, t)],
          ret |-> st.spans[id].status.tag = "Running"]
    ELSE [store |-> st, ret |-> FALSE]

fail(st, id, error, t) ==
    IF id \in DOMAIN st.spans
    THEN [store |-> [st EXCEPT !.spans[id] = span_fail(@, error, t)], ret |-> TRUE]
    ELSE [store |-> st, ret |-> FALSE]

span_count(st) == Cardinality(DOMAIN st.spans)

trace_count(st) == Cardinality(DOMAIN st.traces)

delete_span(st, id) ==
    IF id \in DOMAIN st.spans
    THEN LET span == st.spans[id]
             spans1 == Remove(st.spans, id)
         IN  IF span.trace_id \in DOMAIN st.traces
             THEN LET span_ids == SelectSeq(st.traces[span.trace_id],
                                             LAMBDA sid : sid # id)
                  IN  IF span_ids = << >>
                      THEN [store |-> [spans |-> spans1,
                                       traces |-> Remove(st.traces, span.trace_id)],
                            ret |-> TRUE]
                      ELSE [store |-> [spans |-> spans1,
                                       traces |-> Put(st.traces, span.trace_id, span_ids)],
                            ret |-> TRUE]
             ELSE [store |-> [spans |-> spans1, traces |-> st.traces], ret |-> TRUE]
    ELSE [store |-> st, ret |-> FALSE]

delete_trace(st, trace_id) ==
    IF trace_id \in DOMAIN st.traces
    THEN LET span_ids == st.traces[trace_id]
             gone == {span_ids[i] : i \in 1..Len(span_ids)}
         IN  [store |-> [spans |-> [x \in DOMAIN st.spans \ gone |-> st.spans[x]],
                         traces |-> Remove(st.traces, trace_id)],
              ret |-> Len(span_ids)]
    ELSE [store |-> st, ret |-> 0]

clear(st) == [spans |-> << >>, traces |-> << >>]

(* ------------------------------------------------------------------ init *)
NoResult == [tag |-> "none"]
NoReply == [status |-> 0, body |-> None]
NoRet == [op |-> "none"]
NoCall == [req |-> [kind |-> "none", model |-> ""], span_id |-> 0,
           span |-> [id |-> 0], result |-> NoResult, reply |-> NoReply]

Init ==
    /\ store = SpanStore_new
    /\ now = 0
    /\ next_id = 0
    /\ inserted = << >>
    /\ deleted = {}
    /\ writers = {}
    /\ readers = {}
    /\ pc = [t \in Tasks |-> "idle"]
    /\ call = [h \in Handlers |-> NoCall]
    /\ ret = NoRet

\* Utc::now() is read from a clock that never goes back
Tick ==
    /\ now < MaxTime
    /\ now' = now + 1
    /\ UNCHANGED << store, next_id, inserted, deleted, writers, readers, pc, call, ret >>

(* ------------------------------------------------------------ the proxy *)
\* an inbound request: the handler it is routed to and the fields the handler reads
Requests ==
    { [kind |-> "generate", model |-> "llama3"],
      [kind |-> "chat", model |-> "mistral"] }

\* Span::new's name argument in proxy_generate / proxy_chat
SpanName(kind) == IF kind = "generate" THEN "ollama-generate" ELSE "ollama-chat"

\* (mutant) the span left with Span::new's empty metadata
handler_span_no_model(req, span_id, trace_id, t) ==
    Span_new(span_id, trace_id, None, SpanName(req.kind), t)

\* the span a handler builds before it touches the store
handler_span(req, span_id, trace_id, t) ==
    [Span_new(span_id, trace_id, None, SpanName(req.kind), t)
        EXCEPT !.metadata = SpanMetadata(Some(req.model), None, None)]

\* what `client.post(..).send().await` and the reading of the body can end in
Results ==
    { [tag |-> "transport", detail |-> "timed out"],
      [tag |-> "status", status |-> "500 Internal Server Error", body |-> "oom"],
      [tag |-> "parse", detail |-> "expected value"],
      [tag |-> "ok", prompt_eval_count |-> Some(10), eval_count |-> Some(5)],
      [tag |-> "ok", prompt_eval_count |-> None, eval_count |-> None] }

\* format!(..): the literal and the interpolated parts, in order
msg_request_failed(result) == << "Request failed: ", result.detail >>
\* (mutant) the backend's body left out of the message
msg_ollama_error_no_body(result) == << "Ollama error ", result.status >>

msg_ollama_error(result) == << "Ollama error ", result.status, ": ", result.body >>
msg_parse_failed(result) == << "Failed to parse response: ", result.detail >>

error_message(result) ==
    CASE result.tag = "transport" -> msg_request_failed(result)
      [] result.tag = "status" -> msg_ollama_error(result)
      [] result.tag = "parse" -> msg_parse_failed(result)

\* (mutant) the two counters stored in each other's field
set_tokens_swapped(st, span_id, resp) ==
    IF span_id \in DOMAIN st.spans
    THEN [st EXCEPT !.spans[span_id].metadata.input_tokens = resp.eval_count,
                    !.spans[span_id].metadata.output_tokens = resp.prompt_eval_count]
    ELSE st

\* the success path under the write guard: get_mut, then the two token fields
set_tokens(st, span_id, resp) ==
    IF span_id \in DOMAIN st.spans
    THEN [st EXCEPT !.spans[span_id].metadata.input_tokens = resp.prompt_eval_count,
                    !.spans[span_id].metadata.output_tokens = resp.eval_count]
    ELSE st

\* (mutant) a completion that stamps started_at anew
complete_handle_restamp(st, span_id, t) ==
    IF span_id \in DOMAIN st.spans /\ st.spans[span_id].status.tag = "Running"
    THEN [st EXCEPT !.spans[span_id].status = Completed(t, t)]
    ELSE st

\* ... then s.complete() on the same handle
complete_handle(st, span_id, t) ==
    IF span_id \in DOMAIN st.spans
    THEN [st EXCEPT !.spans[span_id] = span_complete(@, t)]
    ELSE st

get_mut(st, id) == get(st, id)

\* fail_span's body under its write guard
fail_span(st, span_id, error, t) ==
    IF span_id \in DOMAIN st.spans
    THEN [st EXCEPT !.spans[span_id] = span_fail(@, error, t)]
    ELSE st

BAD_GATEWAY == 502
OK == 200

\* Ok(Json(resp_json).into_response()) and Err(StatusCode::BAD_GATEWAY)
reply_ok(resp) == [status |-> OK, body |-> Some(resp)]
\* (mutant) a failure reply that carries the error text as its body
reply_err_echo(result) == [status |-> BAD_GATEWAY, body |-> Some(error_message(result))]

\* the arm's Err(..) does not use what the outbound call ended in
reply_err(result) == [status |-> BAD_GATEWAY, body |-> None]

(* --------------------------------------------------------- the RwLock *)
\* tokio::sync::RwLock: write() is granted when nobody holds a guard; read()
\* when no writer holds one and no write() is queued (the lock is fair: readers
\* that come after a waiting writer wait behind it).  A handler whose outbound
\* call has returned runs straight into its write().await, so it is queued
\* from then on.
\* (mutant) a write guard granted while read guards are out
can_write_over_readers == writers = {}

can_write == writers = {} /\ readers = {}
write_queued == \E h \in Handlers : pc[h] = "responded"
can_read == writers = {} /\ ~write_queued

StoreGhost == << next_id, inserted, deleted, ret >>

(* ------------------------------------------------------ handler tasks *)
\* Each handler task serves one inbound call.  Uuid::new_v4() gives the call
\* a span id and a trace id nobody else has: the task's own number.
new_span_id(h) == h
\* (mutant) every call filed under one trace
new_trace_id_shared(h) == 1

new_trace_id(h) == h

\* the inbound call task h serves: odd tasks a generate call, even tasks a chat call
RequestOf(h) ==
    IF h % 2 = 1 THEN [kind |-> "generate", model |-> "llama3"]
                 ELSE [kind |-> "chat", model |-> "mistral"]

\* lines 76-89 / 145-158: the request arrives, the span is built, and
\* `state.store.write().await` is granted
HandlerBegin(h) ==
    LET req == RequestOf(h) IN
        /\ pc[h] = "idle"
        /\ can_write
        /\ writers' = writers \cup {h}
        /\ pc' = [pc EXCEPT ![h] = "inserting"]
        /\ call' = [call EXCEPT ![h] =
                        [req |-> req, span_id |-> new_span_id(h),
                         span |-> handler_span(req, new_span_id(h), new_trace_id(h), now),
                         result |-> NoResult, reply |-> NoReply]]
        /\ UNCHANGED << store, now, readers, StoreGhost >>

\* (mutant) the write guard bound outside the block, so still held during the call
HandlerInsert_hold(h) ==
    /\ pc[h] = "inserting"
    /\ store' = insert(store, call[h].span)
    /\ pc' = [pc EXCEPT ![h] = "awaiting"]
    /\ UNCHANGED << now, writers, readers, call, StoreGhost >>

\* lines 90-100 / 159-169: insert, the guard is dropped, the outbound call is sent
HandlerInsert(h) ==
    /\ pc[h] = "inserting"
    /\ store' = insert(store, call[h].span)
    /\ writers' = writers \ {h}
    /\ pc' = [pc EXCEPT ![h] = "awaiting"]
    /\ UNCHANGED << now, readers, call, StoreGhost >>

\* the outbound call returns (or fails) and the handler's match picks its arm
BackendRespond(h) ==
    \E result \in Results :
        /\ pc[h] = "awaiting"
        /\ pc' = [pc EXCEPT ![h] = "responded"]
        /\ call' = [call EXCEPT ![h].result = result]
        /\ UNCHANGED << store, now, writers, readers, StoreGhost >>

\* line 110 / 179, and line 211 in fail_span: `store.write().await` is granted
HandlerLock(h) ==
    /\ pc[h] = "responded"
    /\ can_write
    /\ writers' = writers \cup {h}
    /\ pc' = [pc EXCEPT ![h] = IF call[h].result.tag = "ok" THEN "tokens" ELSE "failing"]
    /\ UNCHANGED << store, now, readers, call, StoreGhost >>

\* (mutant) the tokens written under one write guard and s.complete() under the next
HandlerSetTokens_unlock(h) ==
    /\ pc[h] = "tokens"
    /\ store' = set_tokens(store, call[h].span_id, call[h].result)
    /\ writers' = writers \ {h}
    /\ pc' = [pc EXCEPT ![h] = "completing"]
    /\ UNCHANGED << now, readers, call, StoreGhost >>

\* lines 111-113 / 180-182
HandlerSetTokens(h) ==
    /\ pc[h] = "tokens"
    /\ store' = set_tokens(store, call[h].span_id, call[h].result)
    /\ pc' = [pc EXCEPT ![h] = "completing"]
    /\ UNCHANGED << now, writers, readers, call, StoreGhost >>

\* lines 114-121 / 183-190: s.complete(), the guard is dropped, the reply is built
HandlerComplete(h) ==
    /\ pc[h] = "completing"
    /\ store' = complete_handle(store, call[h].span_id, now)
    /\ writers' = writers \ {h}
    /\ pc' = [pc EXCEPT ![h] = "done"]
    /\ call' = [call EXCEPT ![h].reply = reply_ok(call[h].result)]
    /\ UNCHANGED << now, readers, StoreGhost >>

\* (mutant) a failure path that files the span again when it is gone
HandlerFail_reinsert(h) ==
    /\ pc[h] = "failing"
    /\ store' = fail_span(IF call[h].span_id \in DOMAIN store.spans
                          THEN store ELSE insert(store, call[h].span),
                          call[h].span_id, error_message(call[h].result), now)
    /\ writers' = writers \ {h}
    /\ pc' = [pc EXCEPT ![h] = "done"]
    /\ call' = [call EXCEPT ![h].reply = reply_err(call[h].result)]
    /\ UNCHANGED << now, readers, StoreGhost >>

\* lines 212-216 and the Err(StatusCode::BAD_GATEWAY) after each fail_span call
HandlerFail(h) ==
    /\ pc[h] = "failing"
    /\ store' = fail_span(store, call[h].span_id, error_message(call[h].result), now)
    /\ writers' = writers \ {h}
    /\ pc' = [pc EXCEPT ![h] = "done"]
    /\ call' = [call EXCEPT ![h].reply = reply_err(call[h].result)]
    /\ UNCHANGED << now, readers, StoreGhost >>

Handler(h) ==
    \/ HandlerBegin(h)
    \/ HandlerInsert(h)
    \/ BackendRespond(h)
    \/ HandlerLock(h)
    \/ HandlerSetTokens(h)
    \/ HandlerComplete(h)
    \/ HandlerFail(h)

(* ------------------------------------- query / administration surface *)
\* a query (get, spans_for_trace, filter_spans) runs under a read guard
ReaderLock(r) ==
    /\ pc[r] = "idle"
    /\ can_read
    /\ readers' = readers \cup {r}
    /\ pc' = [pc EXCEPT ![r] = "reading"]
    /\ UNCHANGED << store, now, writers, call, StoreGhost >>

ReaderUnlock(r) ==
    /\ pc[r] = "reading"
    /\ readers' = readers \ {r}
    /\ pc' = [pc EXCEPT ![r] = "idle"]
    /\ UNCHANGED << store, now, writers, call, StoreGhost >>

\* delete span, delete trace and clear run under a write guard
AdminLock ==
    /\ pc[Admin] = "idle"
    /\ can_write
    /\ writers' = writers \cup {Admin}
    /\ pc' = [pc EXCEPT ![Admin] = "writing"]
    /\ UNCHANGED << store, now, readers, call, StoreGhost >>

AdminUnlock(st) ==
    /\ pc[Admin] = "writing"
    /\ store' = st
    /\ deleted' = deleted \cup (DOMAIN store.spans \ DOMAIN st.spans)
    /\ writers' = writers \ {Admin}
    /\ pc' = [pc EXCEPT ![Admin] = "idle"]
    /\ UNCHANGED << now, readers, call, next_id, inserted, ret >>

AdminDeleteSpan == \E id \in Handlers : AdminUnlock(delete_span(store, id).store)

AdminDeleteTrace == \E trace_id \in Handlers : AdminUnlock(delete_trace(store, trace_id).store)

AdminClear == AdminUnlock(clear(store))

Next ==
    \/ \E h \in Handlers : Handler(h)
    \/ \E r \in Readers : ReaderLock(r) \/ ReaderUnlock(r)
    \/ AdminLock
    \/ AdminDeleteSpan
    \/ AdminDeleteTrace
    \/ AdminClear

Spec == Init /\ [][Next]_vars

\* a step of a task that holds a guard: it works on the store or drops the guard
GuardStep ==
    \/ \E h \in Handlers :
         HandlerInsert(h) \/ HandlerSetTokens(h) \/ HandlerComplete(h) \/ HandlerFail(h)
    \/ \E r \in Readers : ReaderUnlock(r)
    \/ AdminDeleteSpan \/ AdminDeleteTrace \/ AdminClear

\* The tasks are scheduled fairly and the RwLock queues its waiters: a task that
\* holds a guard goes on and drops it, and handlers waiting for the write guard
\* get it if the lock keeps becoming free.  Nothing makes a request arrive, a
\* query start, or the backend answer.
Fairness ==
    /\ WF_vars(GuardStep)
    /\ SF_vars(\E h \in Handlers : HandlerLock(h))

LiveSpec == Init /\ [][Next]_vars /\ Fairness

(* ------------------------------------------- the store, called directly *)
DaemonVars == << writers, readers, pc, call, deleted, ret >>

\* A caller inserts a span: one it just built with Span::new (a fresh id), or
\* one carrying the id of a span already stored (Span's fields are public).
StoreInsert ==
    \E trace_id \in TraceIds, req \in Requests, id \in DOMAIN store.spans \cup {next_id + 1} :
        /\ Len(inserted) < MaxInserts
        /\ store' = insert(store, handler_span(req, id, trace_id, now))
        /\ inserted' = Append(inserted, << trace_id, id >>)
        /\ next_id' = IF id = next_id + 1 THEN next_id + 1 ELSE next_id
        /\ UNCHANGED << now, DaemonVars >>

StoreDeleteSpan ==
    \E id \in SpanIds :
        /\ store' = delete_span(store, id).store
        /\ UNCHANGED << now, next_id, inserted, DaemonVars >>

StoreDeleteTrace ==
    \E trace_id \in TraceIds :
        /\ store' = delete_trace(store, trace_id).store
        /\ UNCHANGED << now, next_id, inserted, DaemonVars >>

StoreClear ==
    /\ store' = clear(store)
    /\ UNCHANGED << now, next_id, inserted, DaemonVars >>

StoreNext ==
    \/ StoreInsert
    \/ StoreDeleteSpan
    \/ StoreDeleteTrace
    \/ StoreClear

StoreSpec == Init /\ [][StoreNext]_vars

(* --------------------------------------------------- the span lifecycle *)
LiveIds == 1..MaxLive
FailureResults == {r \in Results : r.tag # "ok"}
OkResults == {r \in Results : r.tag = "ok"}

LifeInsert ==
    \E req \in Requests :
        /\ next_id < MaxLive
        /\ store' = insert(store, handler_span(req, next_id + 1, next_id + 1, now))
        /\ next_id' = next_id + 1
        /\ UNCHANGED << now, inserted, DaemonVars >>

\* store.complete(id)
LifeComplete ==
    \E id \in LiveIds :
        /\ store' = complete(store, id, now).store
        /\ UNCHANGED << now, next_id, inserted, DaemonVars >>

\* store.fail(id, error)
LifeFail ==
    \E id \in LiveIds :
        /\ store' = fail(store, id, << "boom" >>, now).store
        /\ UNCHANGED << now, next_id, inserted, DaemonVars >>

\* the handlers' success path: get_mut, the token fields, s.complete()
LifeHandlerComplete ==
    \E id \in LiveIds, resp \in OkResults :
        /\ store' = complete_handle(set_tokens(store, id, resp), id, now)
        /\ UNCHANGED << now, next_id, inserted, DaemonVars >>

\* fail_span
LifeHandlerFail ==
    \E id \in LiveIds, result \in FailureResults :
        /\ store' = fail_span(store, id, error_message(result), now)
        /\ UNCHANGED << now, next_id, inserted, DaemonVars >>

LifeNext ==
    \/ Tick
    \/ LifeInsert
    \/ LifeComplete
    \/ LifeFail
    \/ LifeHandlerComplete
    \/ LifeHandlerFail

LifeSpec == Init /\ [][LifeNext]_vars

(* ================================================================ claims *)
Terminal == {"Completed", "Failed"}

(* ---- C1 (StoreSpec) ---- *)
\* the ids of the live spans inserted under trace t, in the order of the insert calls
LiveInsertedUnder(t) ==
    LET e(i) == inserted[i]
        idx == SelectSeq([i \in 1..Len(inserted) |-> i],
                         LAMBDA i : e(i)[1] = t /\ e(i)[2] \in DOMAIN store.spans)
    IN  [k \in 1..Len(idx) |-> e(idx[k])[2]]

TracesWithLiveSpan == {store.spans[id].trace_id : id \in DOMAIN store.spans}

\* C1: after any sequence of insert, delete_span, delete_trace and clear,
\* trace_ids() is exactly the set of traces with at least one stored span, and
\* spans_for_trace(t) is exactly the stored spans' ids inserted under t, in
\* insertion order: no empty entry and no id of a removed span persists.
C1_IndexConsistency ==
    /\ trace_ids(store) = TracesWithLiveSpan
    /\ \A t \in TraceIds :
        /\ spans_for_trace(store, t) = LiveInsertedUnder(t)
        /\ \A i \in 1..Len(spans_for_trace(store, t)) :
              /\ spans_for_trace(store, t)[i] \in DOMAIN store.spans
              /\ store.spans[spans_for_trace(store, t)[i]].trace_id = t

(* ---- C2 (LifeSpec) ---- *)
LifecycleStep ==
    \A id \in DOMAIN store'.spans :
        IF id \in DOMAIN store.spans
        THEN LET a == store.spans[id].status
                 b == store'.spans[id].status
             IN  \/ b = a
                 \/ /\ a.tag = "Running"
                    /\ b.tag \in Terminal
                    /\ b.started_at = a.started_at
        ELSE store'.spans[id].status.tag = "Running"

\* C2: a span enters the store Running; the only status changes are
\* Running->Completed and Running->Failed; a complete or fail on a span that is
\* already Completed or Failed (by store.complete, store.fail or through get_mut
\* as the handlers do) leaves the whole status (variant, ended_at, error) as it was.
C2_Lifecycle == [][LifecycleStep]_vars

\* a Failed span on which the handlers' success path ran afterwards, at a later time
C2_Witness ==
    \E id \in DOMAIN store.spans :
        /\ store.spans[id].status.tag = "Failed"
        /\ store.spans[id].metadata.input_tokens # None
        /\ store.spans[id].status.ended_at < now

(* ---- C3 (Spec) ---- *)
PartiallyFinalized(span) ==
    /\ span.status.tag = "Running"
    /\ \/ span.metadata.input_tokens # None
       \/ span.metadata.output_tokens # None

\* C3: while any task holds shared (read) access, no stored span has token
\* counts set by a success path and a status that is still Running.
C3_NoPartialRead ==
    readers # {} => \A id \in DOMAIN store.spans : ~PartiallyFinalized(store.spans[id])

\* a reader holds shared access to a store in which a success path has set tokens
C3_Witness ==
    /\ readers # {}
    /\ \E id \in DOMAIN store.spans : store.spans[id].metadata.output_tokens # None

(* ---- C4 (Spec) ---- *)
\* C4: a handler task waiting for its outbound response holds neither shared nor
\* exclusive access to the store.
C4_NoGuardAcrossCall ==
    \A h \in Handlers : pc[h] = "awaiting" => h \notin writers /\ h \notin readers

\* while one handler waits for its backend, another task holds the write guard
C4_Witness ==
    \E h \in Handlers, t \in Tasks : pc[h] = "awaiting" /\ t # h /\ t \in writers

(* ---- C5 (Spec) ---- *)
RWExclusion ==
    /\ Cardinality(writers) <= 1
    /\ writers # {} => readers = {}

ExclusiveStep ==
    /\ RWExclusion
    /\ RWExclusion'
    /\ store' # store =>
          \E t \in Tasks : writers = {t} /\ readers = {} /\ pc'[t] # pc[t]
                            /\ \A u \in Tasks \ {t} : pc'[u] = pc[u]

\* C5: at every moment either nobody holds exclusive access, or exactly one task
\* does and nobody holds shared access; and the store changes only in a step of
\* the one task that holds exclusive access, so the critical sections of two
\* mutations never overlap.
C5_Exclusion == [][ExclusiveStep]_vars

\* two readers hold shared access at once while a handler waits to finalize
C5_Witness ==
    /\ Cardinality(readers) >= 2
    /\ \E h \in Handlers : pc[h] = "responded"

(* ---- C6 (Spec) ---- *)
InFlight == {"awaiting", "responded", "tokens", "failing"}

\* C6: from the moment a handler waits for its outbound call until its finalize
\* step, its span, unless deleted, is stored with status Running, no parent and
\* metadata.model equal to the request's model (so the insert came first).
C6_InFlightVisible ==
    \A h \in Handlers :
        (pc[h] \in InFlight /\ call[h].span_id \notin deleted) =>
            /\ get(store, call[h].span_id) # None
            /\ LET span == get(store, call[h].span_id)[1]
               IN  /\ span.status.tag = "Running"
                   /\ span.parent_span_id = None
                   /\ span.metadata.model = Some(call[h].req.model)

\* a reader holds shared access while a handler's span is in flight and stored
C6_Witness ==
    \E h \in Handlers :
        /\ pc[h] = "awaiting"
        /\ call[h].span_id \in DOMAIN store.spans
        /\ readers # {}

(* ---- C7 (Spec) ---- *)
FailureTags == {"transport", "status", "parse"}
Contains(seq, x) == \E i \in 1..Len(seq) : seq[i] = x

\* the error text has the form the failure kind calls for
MessageOfKind(result, error) ==
    CASE result.tag = "transport" ->
            Len(error) = 2 /\ error[1] = "Request failed: " /\ error[2] = result.detail
      [] result.tag = "status" ->
            Contains(error, result.status) /\ Contains(error, result.body)
      [] result.tag = "parse" ->
            Len(error) = 2 /\ error[1] = "Failed to parse response: "
                           /\ error[2] = result.detail

SpanOf(h) == get(store, call[h].span_id)
FailedAsCalledFor(h, span) ==
    /\ span.status.tag = "Failed"
    /\ MessageOfKind(call[h].result, span.status.error)
    /\ span.metadata.input_tokens = None
    /\ span.metadata.output_tokens = None

\* C7 as stated: whenever a handler returns from a failed outbound call, its span
\* is stored and Failed with the message of that failure kind and no token
\* counts, and the caller gets the upstream-failure status.
C7_AsStated ==
    [][\A h \in Handlers :
          (pc[h] = "failing" /\ pc'[h] = "done") =>
              /\ call'[h].reply.status = BAD_GATEWAY
              /\ get(store', call[h].span_id) # None
              /\ FailedAsCalledFor(h, get(store', call[h].span_id)[1])]_vars

\* C7 (amended): for a call whose outbound call failed (transport, non-success
\* status, unparseable body), the span is never Completed and never gets token
\* counts; once the handler has returned the caller has the upstream-failure
\* status with no body and the span, unless it was deleted, is stored and Failed
\* with the message of that failure kind.
C7_FailureOutcome ==
    \A h \in Handlers :
        call[h].result.tag \in FailureTags =>
            /\ SpanOf(h) # None =>
                  /\ SpanOf(h)[1].status.tag # "Completed"
                  /\ SpanOf(h)[1].metadata.input_tokens = None
                  /\ SpanOf(h)[1].metadata.output_tokens = None
            /\ pc[h] = "done" =>
                  /\ call[h].reply.status = BAD_GATEWAY
                  /\ call[h].reply.body = None
                  /\ call[h].span_id \notin deleted =>
                        SpanOf(h) # None /\ FailedAsCalledFor(h, SpanOf(h)[1])

\* a chat call answered with a non-success status has returned and its span is Failed
C7_Witness ==
    \E h \in Handlers :
        /\ pc[h] = "done"
        /\ call[h].req.kind = "chat"
        /\ call[h].result.tag = "status"
        /\ SpanOf(h) # None
        /\ SpanOf(h)[1].status.tag = "Failed"

(* ---- C8 (Spec) ---- *)
CompletedAsCalledFor(h, span) ==
    /\ span.status.tag = "Completed"
    /\ span.metadata.input_tokens = call[h].result.prompt_eval_count
    /\ span.metadata.output_tokens = call[h].result.eval_count
    /\ span.metadata.model = Some(call[h].req.model)

\* C8 as stated: whenever a handler returns from a successful outbound call, its
\* span is stored and Completed with the backend's counters and the request's
\* model, and the caller gets success.
C8_AsStated ==
    [][\A h \in Handlers :
          (pc[h] = "completing" /\ pc'[h] = "done") =>
              /\ call'[h].reply.status = OK
              /\ get(store', call[h].span_id) # None
              /\ CompletedAsCalledFor(h, get(store', call[h].span_id)[1])]_vars

\* C8 (amended): once a handler has returned, the caller has success exactly when
\* the outbound call succeeded with a parseable body (the Completed path), and
\* the span of such a call, unless it was deleted, is stored and Completed with
\* input_tokens = prompt_eval_count, output_tokens = eval_count (absent when
\* omitted) and the request's model.
C8_SuccessOutcome ==
    \A h \in Handlers :
        pc[h] = "done" =>
            /\ call[h].reply.status = OK <=> call[h].result.tag = "ok"
            /\ (call[h].result.tag = "ok" /\ call[h].span_id \notin deleted) =>
                  SpanOf(h) # None /\ CompletedAsCalledFor(h, SpanOf(h)[1])

\* a call whose backend reported both counters has returned; its span is Completed
C8_Witness ==
    \E h \in Handlers :
        /\ pc[h] = "done"
        /\ call[h].result.tag = "ok"
        /\ call[h].result.eval_count = Some(5)
        /\ SpanOf(h) # None
        /\ SpanOf(h)[1].status.tag = "Completed"
        /\ SpanOf(h)[1].metadata.output_tokens = Some(5)

(* ---- C9 (Spec) ---- *)
ReturnedFailure(h) == pc[h] = "done" /\ call[h].result.tag \in FailureTags

\* C9: any two calls that ended in an upstream failure, of whatever kind and
\* with whatever status, body or detail, gave their callers the same reply: the
\* upstream-failure status and no body.
C9_FailureAbsorbed ==
    \A h1, h2 \in Handlers :
        (ReturnedFailure(h1) /\ ReturnedFailure(h2)) =>
            /\ call[h1].reply = call[h2].reply
            /\ call[h1].reply.body = None

\* two calls have returned from failures of different kinds, both recorded in their spans
C9_Witness ==
    \E h1, h2 \in Handlers :
        /\ ReturnedFailure(h1) /\ ReturnedFailure(h2)
        /\ call[h1].result.tag = "transport"
        /\ call[h2].result.tag = "status"
        /\ SpanOf(h1) # None /\ SpanOf(h2) # None
        /\ SpanOf(h1)[1].status.error # SpanOf(h2)[1].status.error

(* ---- C10 (LiveSpec) ---- *)
Finalized(h) == SpanOf(h) # None /\ SpanOf(h)[1].status.tag \in Terminal

\* C10 as stated, its final result: a handler that returns has finalized its span
C10_AsStated ==
    [][\A h \in Handlers :
          (pc[h] # "done" /\ pc'[h] = "done") =>
              /\ get(store', call[h].span_id) # None
              /\ get(store', call[h].span_id)[1].status.tag \in Terminal]_vars

\* a step of handler h changes no span but h's own
OwnSpanOnly ==
    \A h \in Handlers :
        pc'[h] # pc[h] =>
            \A id \in DOMAIN store.spans \ {new_span_id(h)} :
                id \in DOMAIN store'.spans /\ store'.spans[id] = store.spans[id]

\* C10 (amended): under fair scheduling, every call whose outbound call has
\* returned eventually returns to its caller with its span, if it is still
\* stored, Completed or Failed, whether or not other calls ever get an answer;
\* a handler's steps change no span but its own; and a span that is Running
\* belongs to a call that has not returned.
C10_Progress ==
    /\ \A h \in Handlers :
          (pc[h] = "responded") ~> (pc[h] = "done" /\ (SpanOf(h) # None => Finalized(h)))
    /\ [][OwnSpanOnly]_vars
    /\ [](\A h \in Handlers :
            (SpanOf(h) # None /\ SpanOf(h)[1].status.tag = "Running") => pc[h] # "done")

\* one call has returned with its span finalized while another still waits for
\* its backend, its span Running
C10_Witness ==
    \E h1, h2 \in Handlers :
        /\ pc[h1] = "done" /\ Finalized(h1)
        /\ pc[h2] = "awaiting"
        /\ SpanOf(h2) # None /\ SpanOf(h2)[1].status.tag = "Running"

(* ---- C11 (StoreSpec) ---- *)
\* seq with every occurrence of id taken out, the rest in order
Without(seq, id) == SelectSeq(seq, LAMBDA x : x # id)

\* the stored spans that belong to trace t
StoredUnder(st, t) == {id \in DOMAIN st.spans : st.spans[id].trace_id = t}

DeleteSpanContract(st, id) ==
    LET r == delete_span(st, id)
        after == r.store
    IN  /\ r.ret = (id \in DOMAIN st.spans)
        /\ get(after, id) = None
        /\ DOMAIN after.spans = DOMAIN st.spans \ {id}
        /\ \A other \in DOMAIN after.spans : after.spans[other] = st.spans[other]
        /\ \A u \in trace_ids(after) : after.traces[u] # << >>
        /\ id \notin DOMAIN st.spans => after = st
        /\ id \in DOMAIN st.spans =>
              LET t == st.spans[id].trace_id
              IN  /\ ~Contains(spans_for_trace(after, t), id)
                  /\ spans_for_trace(after, t) = Without(spans_for_trace(st, t), id)
                  /\ StoredUnder(st, t) = {id} => t \notin trace_ids(after)
                  /\ \A u \in trace_ids(st) \ {t} :
                        u \in trace_ids(after) /\ after.traces[u] = st.traces[u]
                  /\ trace_ids(after) \subseteq trace_ids(st)

\* C11: in every store state and for every id, delete_span(id) returns true
\* exactly when id was stored; afterwards get(id) is absent, id is not in its
\* trace's sequence, the other ids of that trace keep their order, the trace's
\* entry is gone when id was the trace's last stored span (never left empty), and
\* every other span and trace entry is as before.
C11_DeleteSpan == \A id \in SpanIds : DeleteSpanContract(store, id)

(* ---- C12 (StoreSpec) ---- *)
DeleteTraceContract(st, t) ==
    LET r == delete_trace(st, t)
        after == r.store
    IN  /\ spans_for_trace(after, t) = << >>
        /\ t \notin trace_ids(after)
        /\ \A id \in StoredUnder(st, t) : get(after, id) = None
        /\ \A i \in 1..Len(spans_for_trace(st, t)) :
              get(after, spans_for_trace(st, t)[i]) = None
        /\ r.ret = span_count(st) - span_count(after)
        /\ t \notin trace_ids(st) => r.ret = 0 /\ after = st

\* C12: in every state reachable by store operations and for every trace t,
\* after delete_trace(t) spans_for_trace(t) is empty, t is not counted among the
\* traces and none of its spans can be got; the count returned is the number of
\* spans removed (the decrease of span_count()), and 0 with the store unchanged
\* when t is unknown.
C12_DeleteTrace == \A t \in TraceIds : DeleteTraceContract(store, t)

(* ------------------------------------------------------------ filter_spans *)
MaxStored == 2      \* spans in the stores a single call is made on

\* SpanFilter: every criterion an Option
SpanFilter(model, status, since, until, name_contains) ==
    [model |-> model, status |-> status, since |-> since, until |-> until,
     name_contains |-> name_contains]

\* A name as the sequence of its parts, and str::contains on such sequences
\* (needle occurs in hay as a contiguous run).
NameParts(name) ==
    CASE name = "ollama-generate" -> << "ollama", "-", "generate" >>
      [] name = "ollama-chat" -> << "ollama", "-", "chat" >>
      [] OTHER -> << name >>

str_contains(hay, needle) ==
    \E i \in 0..(Len(hay) - Len(needle)) : SubSeq(hay, i + 1, i + Len(needle)) = needle

\* the closure's `match &span.status` that names the variant
span_status(status) ==
    CASE status.tag = "Running" -> "running"
      [] status.tag = "Completed" -> "completed"
      [] status.tag = "Failed" -> "failed"

\* (mutant) until taken as an exclusive bound
keep_until_exclusive(span, filter) ==
    IF filter.model # None /\ span.metadata.model # filter.model THEN FALSE
    ELSE IF filter.status # None /\ span_status(span.status) # filter.status[1] THEN FALSE
    ELSE IF filter.since # None /\ span.status.started_at < filter.since[1] THEN FALSE
    ELSE IF filter.until # None /\ span.status.started_at >= filter.until[1] THEN FALSE
    ELSE IF filter.name_contains # None
             /\ ~str_contains(NameParts(span.name), filter.name_contains[1]) THEN FALSE
    ELSE TRUE

\* the closure given to .filter(): each set criterion that fails returns false
keep(span, filter) ==
    IF filter.model # None
         /\ ~(span.metadata.model # None /\ span.metadata.model[1] = filter.model[1])
    THEN FALSE
    ELSE IF filter.status # None /\ span_status(span.status) # filter.status[1] THEN FALSE
    ELSE IF filter.since # None /\ span.status.started_at < filter.since[1] THEN FALSE
    ELSE IF filter.until # None /\ span.status.started_at > filter.until[1] THEN FALSE
    ELSE IF filter.name_contains # None
             /\ ~str_contains(NameParts(span.name), filter.name_contains[1]) THEN FALSE
    ELSE TRUE

\* self.spans.values(): every stored span once, in an order the HashMap picks
values(st) ==
    LET n == Cardinality(DOMAIN st.spans)
        orders == {p \in [1..n -> DOMAIN st.spans] : \A i, j \in 1..n : p[i] = p[j] => i = j}
    IN  {[i \in 1..n |-> st.spans[p[i]]] : p \in orders}

\* filter_spans(&self, filter) over one iteration order
filter_spans(vals, filter) == SelectSeq(vals, LAMBDA span : keep(span, filter))

(* ------------------------------------------- one call on a sample store *)
SampleIds == 1..MaxStored

\* the span with this id as it enters a store at time s: built by a generate
\* call, left as Span::new made it (no model), or built by a chat call
sample_span(id, s) ==
    IF id % 3 = 1 THEN handler_span([kind |-> "generate", model |-> "llama3"], id, id, s)
    ELSE IF id % 3 = 2 THEN Span_new(id, id, None, SpanName("generate"), s)
    ELSE handler_span([kind |-> "chat", model |-> "mistral"], id, id, s)

\* ... and as it can be by the time MaxTime: still Running, or completed or
\* failed at MaxTime
SampleSpans(id) ==
    UNION { { sample_span(id, s),
              span_complete(sample_span(id, s), MaxTime),
              span_fail(sample_span(id, s), << "boom" >>, MaxTime) } : s \in 0..MaxTime }

RECURSIVE InsertAll(_, _)
InsertAll(c, k) == IF k = 0 THEN SpanStore_new ELSE insert(InsertAll(c, k - 1), c[k])

\* the stores that k <= MaxStored inserts of such spans leave
SampleStores ==
    LET samples == UNION {SampleSpans(id) : id \in SampleIds}
    IN  UNION { { InsertAll(c, k) :
                    c \in {c \in [1..k -> samples] : \A i \in 1..k : c[i].id = i} }
                : k \in 0..MaxStored }

Filters ==
    { SpanFilter(model, status, since, until, name_contains) :
        model \in {None, Some("llama3")},
        status \in {None, Some("running"), Some("completed"), Some("failed")},
        since \in {None, Some(1)},
        until \in {None, Some(1)},
        name_contains \in {None, Some(<< "-", "generate" >>)} }

CallInit ==
    /\ store \in SampleStores
    /\ now = MaxTime
    /\ next_id = 0
    /\ inserted = << >>
    /\ deleted = {}
    /\ writers = {}
    /\ readers = {}
    /\ pc = [t \in Tasks |-> "idle"]
    /\ call = [h \in Handlers |-> NoCall]
    /\ ret = NoRet

\* one query is made on the store
FilterQuery ==
    \E filter \in Filters, vals \in values(store) :
        /\ ret = NoRet
        /\ ret' = [op |-> "filter_spans", filter |-> filter,
                   val |-> filter_spans(vals, filter)]
        /\ UNCHANGED << store, now, next_id, inserted, deleted, writers, readers, pc, call >>

\* what a single call leaves alone besides the store
CallFrame == << now, next_id, inserted, deleted, writers, readers, pc, call >>

CallGet ==
    \E id \in SampleIds :
        /\ ret = NoRet
        /\ ret' = [op |-> "get", id |-> id, val |-> get(store, id)]
        /\ UNCHANGED << store, CallFrame >>

CallGetMut ==
    \E id \in SampleIds :
        /\ ret = NoRet
        /\ ret' = [op |-> "get_mut", id |-> id, val |-> get_mut(store, id)]
        /\ UNCHANGED << store, CallFrame >>

CallSpansForTrace ==
    \E trace_id \in SampleIds :
        /\ ret = NoRet
        /\ ret' = [op |-> "spans_for_trace", id |-> trace_id,
                   val |-> spans_for_trace(store, trace_id)]
        /\ UNCHANGED << store, CallFrame >>

CallComplete ==
    \E id \in SampleIds :
        /\ ret = NoRet
        /\ store' = complete(store, id, now).store
        /\ ret' = [op |-> "complete", id |-> id, val |-> complete(store, id, now).ret]
        /\ UNCHANGED CallFrame

CallFail ==
    \E id \in SampleIds :
        /\ ret = NoRet
        /\ store' = fail(store, id, << "boom" >>, now).store
        /\ ret' = [op |-> "fail", id |-> id, val |-> fail(store, id, << "boom" >>, now).ret]
        /\ UNCHANGED CallFrame

CallDeleteSpan ==
    \E id \in SampleIds :
        /\ ret = NoRet
        /\ store' = delete_span(store, id).store
        /\ ret' = [op |-> "delete_span", id |-> id, val |-> delete_span(store, id).ret]
        /\ UNCHANGED CallFrame

CallDeleteTrace ==
    \E trace_id \in SampleIds :
        /\ ret = NoRet
        /\ store' = delete_trace(store, trace_id).store
        /\ ret' = [op |-> "delete_trace", id |-> trace_id,
                   val |-> delete_trace(store, trace_id).ret]
        /\ UNCHANGED CallFrame

CallNext ==
    \/ FilterQuery
    \/ CallGet
    \/ CallGetMut
    \/ CallSpansForTrace
    \/ CallComplete
    \/ CallFail
    \/ CallDeleteSpan
    \/ CallDeleteTrace

CallSpec == CallInit /\ [][CallNext]_vars

(* ---- C13 (CallSpec) ---- *)
\* span satisfies every criterion that filter f sets
Satisfies(span, f) ==
    /\ f.model # None => span.metadata.model = f.model
    /\ f.status # None =>
          \/ f.status = Some("running") /\ span.status.tag = "Running"
          \/ f.status = Some("completed") /\ span.status.tag = "Completed"
          \/ f.status = Some("failed") /\ span.status.tag = "Failed"
    /\ f.since # None => span.status.started_at >= f.since[1]
    /\ f.until # None => span.status.started_at <= f.until[1]
    /\ f.name_contains # None => str_contains(NameParts(span.name), f.name_contains[1])

Count(seq, x) == Cardinality({i \in 1..Len(seq) : seq[i] = x})

Unset == SpanFilter(None, None, None, None, None)

LookupOps ==
    {"get", "get_mut", "spans_for_trace", "complete", "fail", "delete_span", "delete_trace"}

\* the call op(id) finds nothing in st: no such span, or no such trace
IsMiss(st, op, id) ==
    IF op \in {"spans_for_trace", "delete_trace"}
    THEN id \notin DOMAIN st.traces
    ELSE id \notin DOMAIN st.spans

\* the value that stands for "not found" in each method's return type
MissValue(op) ==
    CASE op \in {"get", "get_mut"} -> None
      [] op = "spans_for_trace" -> << >>
      [] op \in {"complete", "fail", "delete_span"} -> FALSE
      [] op = "delete_trace" -> 0

LookupStep ==
    ret'.op \in LookupOps =>
        /\ IsMiss(store, ret'.op, ret'.id) =>
              /\ ret'.val = MissValue(ret'.op)
              /\ store' = store
        /\ ret'.op \in {"complete", "fail"} => ret'.val = (ret'.id \in DOMAIN store.spans)

\* C14: a call of get, get_mut, complete, fail, delete_span, delete_trace or
\* spans_for_trace with an id that is not stored returns absent / false / 0 /
\* the empty sequence and leaves both indexes as they were; complete and fail
\* return true exactly when the id is stored, terminal span or not.
C14_LookupMiss == [][LookupStep]_vars

\* complete was called with an id that a store holding other spans does not
\* hold, and returned false
C14_Witness ==
    /\ ret.op = "complete"
    /\ ret.val = FALSE
    /\ ret.id \notin DOMAIN store.spans
    /\ span_count(store) >= 1

(* ---- C15 (LifeSpec) ---- *)
\* a span that enters the store started now; a span that stays keeps started_at
StartedAtFixed ==
    \A id \in DOMAIN store'.spans :
        IF id \in DOMAIN store.spans
        THEN store'.spans[id].status.started_at = store.spans[id].status.started_at
        ELSE store'.spans[id].status.started_at = now

EndedAfterStarted ==
    \A id \in DOMAIN store.spans :
        store.spans[id].status.tag \in Terminal =>
            /\ store.spans[id].status.ended_at >= store.spans[id].status.started_at
            /\ store.spans[id].status.ended_at <= now

\* C15: with a clock that never goes back, read at creation and at the terminal
\* transition, a span's started_at is the time of its creation in every status
\* it goes through, over any sequence of complete and fail calls, and a
\* Completed or Failed span has ended_at >= started_at.
C15_Timestamps == [][StartedAtFixed]_vars /\ []EndedAfterStarted

\* a span created after the clock's start was completed later still
C15_Witness ==
    \E id \in DOMAIN store.spans :
        /\ store.spans[id].status.tag = "Completed"
        /\ store.spans[id].status.started_at >= 1
        /\ store.spans[id].status.ended_at > store.spans[id].status.started_at

(* ---- C16 (Spec) ---- *)
\* C16: when spans are created only by the handlers (a fresh trace id and one
\* insert per inbound call) and removed only by delete_span, delete_trace or
\* clear, every entry of the trace index holds exactly one span id, that of a
\* stored span of this trace, and trace_count() = span_count().
C16_OneSpanPerTrace ==
    /\ \A t \in trace_ids(store) :
          /\ Len(spans_for_trace(store, t)) = 1
          /\ get(store, spans_for_trace(store, t)[1]) # None
          /\ get(store, spans_for_trace(store, t)[1])[1].trace_id = t
    /\ trace_count(store) = span_count(store)

\* two calls have inserted their spans, one span was deleted since, and the
\* other is still filed under its own trace
C16_Witness ==
    /\ Cardinality({h \in Handlers : pc[h] # "idle" /\ pc[h] # "inserting"}) >= 2
    /\ deleted # {}
    /\ trace_count(store) = 1

(* ------------------------------------------------ JSON across the proxy *)
MaxExtra == 2       \* passthrough fields a body may carry besides the typed ones

\* serde_json::Value: one record shape per JSON type; an object is a function
\* from its keys to values.
JNull == [null |-> TRUE]
JBool(b) == [bool |-> b]
JStr(s) == [str |-> s]
JNum(n) == [num |-> n]
JArr(seq) == [arr |-> seq]
JObj(fields) == [obj |-> fields]

Drop(f, keys) == [k \in DOMAIN f \ keys |-> f[k]]

\* Option<T> of a struct field to and from JSON: absent or null is None
\* (#[serde(default)]), None is written as null
FieldOpt(body, key) ==
    IF key \in DOMAIN body /\ body[key] # JNull THEN Some(body[key]) ELSE None

OptValue(opt) == IF opt = None THEN JNull ELSE opt[1]

\* ChatMessage { role, content }
ChatMessage_from(m) == [role |-> m.obj["role"].str, content |-> m.obj["content"].str]
ChatMessage_to_value(msg) ==
    JObj(("role" :> JStr(msg.role)) @@ ("content" :> JStr(msg.content)))

\* the typed field of a request besides model and stream
PayloadKey(kind) == IF kind = "generate" THEN "prompt" ELSE "messages"

\* Json<GenerateRequest> / Json<ChatRequest>: the typed fields, and with
\* #[serde(flatten)] every other key of the body in extra
Request_from(kind, body) ==
    [model |-> body["model"].str,
     payload |-> IF kind = "generate"
                 THEN body["prompt"].str
                 ELSE [i \in 1..Len(body["messages"].arr) |->
                          ChatMessage_from(body["messages"].arr[i])],
     stream |-> FieldOpt(body, "stream"),
     extra |-> Drop(body, {"model", PayloadKey(kind), "stream"})]

\* serde_json::to_value(&req)
Request_to_value(kind, req) ==
    ("model" :> JStr(req.model))
    @@ (PayloadKey(kind) :>
          IF kind = "generate"
          THEN JStr(req.payload)
          ELSE JArr([i \in 1..Len(req.payload) |-> ChatMessage_to_value(req.payload[i])]))
    @@ ("stream" :> OptValue(req.stream))
    @@ req.extra

\* (mutant) the request forwarded as the caller wrote it
request_body_as_sent(kind, req) == Request_to_value(kind, req)

\* lines 96-97 / 165-166: to_value, then request_body["stream"] = false
request_body(kind, req) ==
    ("stream" :> JBool(FALSE)) @@ Request_to_value(kind, req)

\* passthrough fields: every choice among the first MaxExtra of these
ExtraFields ==
    << << "keep_alive", JStr("5m") >>, << "seed", JNum(7) >>,
       << "raw", JBool(TRUE) >>, << "format", JNull >> >>

Extras ==
    { [k \in {ExtraFields[i][1] : i \in pick} |->
          ExtraFields[CHOOSE i \in pick : ExtraFields[i][1] = k][2]] :
      pick \in SUBSET (1..MaxExtra) }

\* the stream field as a caller may send it: absent, null, true or false
StreamFields ==
    { << >>, "stream" :> JNull, "stream" :> JBool(TRUE), "stream" :> JBool(FALSE) }

SamplePayload(kind) ==
    IF kind = "generate"
    THEN JStr("why is the sky blue")
    ELSE JArr(<< JObj(("role" :> JStr("system")) @@ ("content" :> JStr("be brief"))),
                 JObj(("role" :> JStr("user")) @@ ("content" :> JStr("hi"))) >>)

\* the bodies the Json extractor accepts for a generate / chat call
InboundBodies(kind) ==
    { ("model" :> JStr(model)) @@ (PayloadKey(kind) :> SamplePayload(kind))
        @@ stream @@ extra :
        model \in {"llama3", "mistral"}, stream \in StreamFields, extra \in Extras }

Kinds == {"generate", "chat"}

\* the typed field of a response besides the two counters
AnswerKey(kind) == IF kind = "generate" THEN "response" ELSE "message"

\* response.json::<GenerateResponse>() / ::<ChatResponse>(): response is a
\* String with #[serde(default)], message and the counters are Options, every
\* other key goes to extra
Response_from(kind, body) ==
    [answer |-> IF kind = "generate"
                THEN (IF "response" \in DOMAIN body THEN body["response"].str ELSE "")
                ELSE (IF FieldOpt(body, "message") = None
                      THEN None
                      ELSE Some(ChatMessage_from(body["message"]))),
     prompt_eval_count |-> FieldOpt(body, "prompt_eval_count"),
     eval_count |-> FieldOpt(body, "eval_count"),
     extra |-> Drop(body, {AnswerKey(kind), "prompt_eval_count", "eval_count"})]

\* serde_json::to_value(&gen_resp) / (&chat_resp): every typed field is written
Response_to_value(kind, resp) ==
    (AnswerKey(kind) :>
        IF kind = "generate"
        THEN JStr(resp.answer)
        ELSE (IF resp.answer = None THEN JNull ELSE ChatMessage_to_value(resp.answer[1])))
    @@ ("prompt_eval_count" :> OptValue(resp.prompt_eval_count))
    @@ ("eval_count" :> OptValue(resp.eval_count))
    @@ resp.extra

SampleAnswer(kind) ==
    IF kind = "generate"
    THEN JStr("Rayleigh scattering")
    ELSE JObj(("role" :> JStr("assistant")) @@ ("content" :> JStr("hello")))

\* a field the backend may write or leave out
Maybe(key, value) == { << >>, key :> value }

\* the success bodies of the backend that parse into the response type
BackendBodies(kind) ==
    { answer @@ input @@ output @@ extra :
        answer \in Maybe(AnswerKey(kind), SampleAnswer(kind)),
        input \in Maybe("prompt_eval_count", JNum(10)),
        output \in Maybe("eval_count", JNum(5)),
        extra \in Extras }

\* an inbound call is parsed and its outbound body is built
Forward ==
    \E kind \in Kinds :
        \E body \in InboundBodies(kind) :
            /\ ret = NoRet
            /\ ret' = [op |-> "forward", kind |-> kind, arg |-> body,
                       val |-> request_body(kind, Request_from(kind, body))]
            /\ UNCHANGED << store, CallFrame >>

\* lines 107, 120-121 / 176, 189-190: the backend's body is parsed, written
\* back to JSON and returned
Relay ==
    \E kind \in Kinds :
        \E body \in BackendBodies(kind) :
            /\ ret = NoRet
            /\ ret' = [op |-> "relay", kind |-> kind, arg |-> body,
                       val |-> reply_ok(Response_to_value(kind, Response_from(kind, body)))]
            /\ UNCHANGED << store, CallFrame >>

WireNext ==
    \/ Forward
    \/ Relay

WireSpec == Init /\ [][WireNext]_vars

(* ---- C17 (WireSpec) ---- *)
\* C17: whatever the inbound generate or chat request says about stream (true,
\* false, null or nothing), the body sent to the backend has stream = false, and
\* it has every other field of the inbound body (model, prompt or messages, the
\* passthrough fields) with the inbound value and no further field.
C17_StreamForcedOff ==
    ret.op = "forward" =>
        /\ "stream" \in DOMAIN ret.val
        /\ ret.val["stream"] = JBool(FALSE)
        /\ DOMAIN ret.val = DOMAIN ret.arg \cup {"stream"}
        /\ \A k \in DOMAIN ret.arg \ {"stream"} : ret.val[k] = ret.arg[k]

\* a chat request that asked for streaming and carried passthrough fields was forwarded
C17_Witness ==
    /\ ret.op = "forward"
    /\ ret.kind = "chat"
    /\ "stream" \in DOMAIN ret.arg
    /\ ret.arg["stream"] = JBool(TRUE)
    /\ DOMAIN ret.arg \ {"model", "messages", "stream"} # {}
    /\ ret.val["stream"] = JBool(FALSE)

(* ---- C18 (WireSpec) ---- *)
\* C18: on the success path the body returned to the inbound caller is the
\* backend's body: parsing it into the response type and writing it back
\* gives an object with exactly the same keys and values.
C18_ResponseVerbatim ==
    ret.op = "relay" =>
        /\ ret.val.status = OK
        /\ ret.val.body = Some(ret.arg)

(* ---- C19 (Spec) ---- *)
Finalizing == {"tokens", "completing", "failing"}

\* a finalize step of a handler whose span is no longer stored
FinalizeOfDeleted(h) ==
    /\ pc[h] \in Finalizing
    /\ pc'[h] # pc[h]
    /\ call[h].span_id \in deleted
    /\ get(store, call[h].span_id) = None

DeletionRaceStep ==
    \A h \in Handlers :
        FinalizeOfDeleted(h) =>
            /\ store' = store
            /\ pc'[h] = "done" =>
                  call'[h].reply.status =
                      IF call[h].result.tag = "ok" THEN OK ELSE BAD_GATEWAY

\* C19: when a span was removed (delete_span, delete_trace or clear) after its
\* handler inserted it and before the handler finalizes it, the finalize steps
\* of the success and of the failure path leave the store as it is (the span
\* is not created again, no index gets an entry, no other span changes) and the
\* handler returns the outcome of its outbound call.
C19_DeletionRace == [][DeletionRaceStep]_vars

\* a handler is in the middle of its success path, under the write guard, its
\* span deleted while the call was in flight; another call's span is stored
C19_Witness ==
    \E h \in Handlers :
        /\ pc[h] = "completing"
        /\ h \in writers
        /\ call[h].span_id \in deleted
        /\ SpanOf(h) = None
        /\ span_count(store) >= 1

(* ---- C20 (StoreSpec) ---- *)
\* the positions of the trace index: one per id held in some trace's sequence
IndexSlots(st) ==
    UNION { { << t, i >> : i \in 1..Len(st.traces[t]) } : t \in trace_ids(st) }

\* C20: after any sequence of insert, delete_span, delete_trace and clear, where
\* insert may be given a span whose id is already stored (under the same or
\* another trace), every stored span's id occurs exactly once in the sequence
\* of its own trace and in no other trace's sequence, and the lengths of all
\* trace sequences add up to span_count().
C20_IndexBijection ==
    /\ \A id \in DOMAIN store.spans :
          \A t \in trace_ids(store) \cup {store.spans[id].trace_id} :
              Count(spans_for_trace(store, t), id) =
                  IF t = store.spans[id].trace_id THEN 1 ELSE 0
    /\ Cardinality(IndexSlots(store)) = span_count(store)

====
